---- MODULE Spec2Model ----
(***************************************************************************)
(* Model of image-to-stl: src/src/to_stl.py (thickness mapping, channel     *)
(* extraction, layer mesh generation, layer stacking, mesh collection) and  *)
(* src/src/main.py (the command-line script).                               *)
(*                                                                         *)
(* Numbers.  Every height (z, thickness, quantization step) is an exact     *)
(* rational number of millimetres, held as an integer count of 1/Mm mm.     *)
(* Mm = 100 * 255 * 3, so that hundredths of a millimetre, the division by  *)
(* 255.0 of normalize_thickness and the division by 3.0 of the key channel  *)
(* are all exact.  The pixel pitch and the x and y coordinates are counted  *)
(* in 1/Pitch mm: scaling an axis by a positive factor changes neither the  *)
(* sign nor the zeroness of any component of a cross product.               *)
(* Floating-point rounding error is not modelled.  Grids are sequences of   *)
(* rows, 1-based: g[y][x] is the code's g[y-1, x-1].                        *)
(***************************************************************************)
EXTENDS Integers, Sequences, FiniteSets, TLC

VARIABLES
    entry,             \* which entry point runs: "main", "api", "mesh"
    pc,                \* position in the run
    img,               \* img.pixelated: [shape, px]
    ofile,             \* main.py's --output-image argument ("" = not given)
    kwargs,            \* keyword arguments of the to_stl_cym call
    config,            \* to_stl_cym's config (None, or an StlConfig)
    channels,          \* intensity_channels (None before extraction)
    base_heights,      \* to_stl_cym's base_heights
    previous_heights,  \* to_stl_cym's previous_heights
    layerIdx,          \* index of the next entry of the layers table
    meshes,            \* to_stl_cym's meshes dict, in insertion order
    collection,        \* the returned StlCollection (None before the return)
    saveIdx,           \* save_to_folder's position in meshes.items()
    files,             \* names of the files written so far, in order
    error,             \* the exception that ended the run, or "none"
    call,              \* arguments of a direct create_layer_mesh call
    result             \* what that call returned or raised

vars == <<entry, pc, img, ofile, kwargs, config, channels, base_heights,
          previous_heights, layerIdx, meshes, collection, saveIdx, files,
          error, call, result>>

None == <<>>

(* ---------------------------------------------------------------- bounds *)
MaxCells == 4

(* ------------------------------------------------------ program constants *)
MaxIntensity == 255
NumChannels == 3
Uint8Modulus == 256

Mm == 100 * MaxIntensity * NumChannels
Pitch == 2 * 5

(* LayerType, to_stl.py 9-14 *)
CYAN == "cyan"
YELLOW == "yellow"
MAGENTA == "magenta"
KEY == "key"
LayerType == {CYAN, YELLOW, MAGENTA, KEY}

(* ------------------------------------------------------------- helpers *)
Rows(g) == Len(g)
Cols(g) == IF Len(g) = 0 THEN 0 ELSE Len(g[1])
Shape(g) == <<Rows(g), Cols(g)>>

(* np.full(shape, value) *)
Full(rows, cols, value) == [y \in 1..rows |-> [x \in 1..cols |-> value]]

(* Python's round() on a float: the nearest integer to n/d, ties to even. *)
RoundHalfEven(n, d) ==
    LET q == n \div d
        r == n % d
    IN  IF 2 * r < d THEN q
        ELSE IF 2 * r > d THEN q + 1
        ELSE IF q % 2 = 0 THEN q ELSE q + 1

(* The cast of a non-negative float to np.uint8: the fraction is dropped. *)
Uint8Cast(h) == ((h \div Mm) % Uint8Modulus) * Mm

(* StlConfig() with its field defaults. *)
DefaultConfig ==
    [base_height |-> Mm \div 5,
     pixel_size |-> Pitch,
     height_step_mm |-> 0,
     layer_heights |-> [l \in LayerType |-> (8 * Mm) \div 5],
     layer_mins |-> [l \in LayerType |-> 0]]

(* normalize_thickness for one cell; the intensity is the rational num/den. *)
NormalizeThickness(num, den, max_distance, min_thickness) ==
    (((MaxIntensity * den - num) * (max_distance - min_thickness))
        \div (MaxIntensity * den)) + min_thickness

(* The sum of three np.uint8 values, itself an np.uint8. *)
PixelSum(p) == (((p[1] + p[2]) % Uint8Modulus) + p[3]) % Uint8Modulus

(* extract_and_invert_channels: the four thickness grids of a pixel grid. *)
ExtractAndInvertChannels(pixelated, cfg) ==
    LET rows == pixelated.shape[1]
        cols == pixelated.shape[2]
        Chan(c, l) ==
            [y \in 1..rows |-> [x \in 1..cols |->
                NormalizeThickness(pixelated.px[y][x][c], 1,
                                   cfg.layer_heights[l], cfg.layer_mins[l])]]
    IN  [c_channel |-> Chan(1, CYAN),
         y_channel |-> Chan(2, YELLOW),
         m_channel |-> Chan(3, MAGENTA),
         intensity_map |->
            [y \in 1..rows |-> [x \in 1..cols |->
                NormalizeThickness(PixelSum(pixelated.px[y][x]), NumChannels,
                                   cfg.layer_heights[KEY], cfg.layer_mins[KEY])]]]

(* ------------------------------------------------- create_layer_mesh *)
Sub(a, b) == <<a[1] - b[1], a[2] - b[2], a[3] - b[3]>>

(* np.cross *)
Cross(a, b) == <<a[2] * b[3] - a[3] * b[2],
                 a[3] * b[1] - a[1] * b[3],
                 a[1] * b[2] - a[2] * b[1]>>

Sgn(n) == IF n > 0 THEN 1 ELSE IF n < 0 THEN -1 ELSE 0

(* normal / np.linalg.norm(normal), in units of one: every box is axis-aligned, *)
(* so a nonzero cross product has one nonzero component and its unit vector is  *)
(* that component's sign.                                                        *)
Normalize(v) == <<Sgn(v[1]), Sgn(v[2]), Sgn(v[3])>>

(* The normal of one face: lines 141-147. *)
FaceNormal(v0, v1, v2) ==
    LET normal == Cross(Sub(v1, v0), Sub(v2, v0))
    IN  IF normal # <<0, 0, 0>> THEN Normalize(normal) ELSE <<0, 0, 1>>

(* The eight corners v0..v7 of the cell in column x, row y (0-based). *)
CellVertices(x, y, pixel_size, start_height, z) ==
    << <<x * pixel_size, y * pixel_size, start_height>>,
       <<(x + 1) * pixel_size, y * pixel_size, start_height>>,
       <<(x + 1) * pixel_size, (y + 1) * pixel_size, start_height>>,
       <<x * pixel_size, (y + 1) * pixel_size, start_height>>,
       <<x * pixel_size, y * pixel_size, z>>,
       <<(x + 1) * pixel_size, y * pixel_size, z>>,
       <<(x + 1) * pixel_size, (y + 1) * pixel_size, z>>,
       <<x * pixel_size, (y + 1) * pixel_size, z>> >>

(* FaceTemplate with the second right-hand triangle wound the other way. *)
FaceTemplateRightFlipped ==
    << <<0, 2, 1>>, <<0, 3, 2>>,
       <<4, 5, 6>>, <<4, 6, 7>>,
       <<0, 1, 5>>, <<0, 5, 4>>,
       <<2, 3, 7>>, <<2, 7, 6>>,
       <<0, 4, 7>>, <<0, 7, 3>>,
       <<1, 2, 6>>, <<1, 5, 6>> >>

(* The twelve faces of a cell, as offsets from base_idx. *)
FaceTemplate ==
    << <<0, 2, 1>>, <<0, 3, 2>>,
       <<4, 5, 6>>, <<4, 6, 7>>,
       <<0, 1, 5>>, <<0, 5, 4>>,
       <<2, 3, 7>>, <<2, 7, 6>>,
       <<0, 4, 7>>, <<0, 7, 3>>,
       <<1, 2, 6>>, <<1, 6, 5>> >>

TrianglesPerCell == Len(FaceTemplate)

(* Lines 96-98: the cell's thickness after quantization. *)
Quantize(z, height_step_mm) ==
    IF height_step_mm > 0
    THEN RoundHalfEven(z, height_step_mm) * height_step_mm
    ELSE z

(* create_layer_mesh.  The cells are visited row by row; previous_heights[y, x] *)
(* raises IndexError at the first cell outside the floor's shape.  The result   *)
(* holds the status, the mesh and next_heights (None when raised), and the      *)
(* number of cells whose vertices and faces had been appended by then.          *)
(* Cell k (from 1) appends its corners at base_idx = 8 * (k - 1), so face       *)
(* [base_idx + a, base_idx + b, base_idx + c] of the faces list is the triangle *)
(* of the cell's own corners a, b, c: stl_mesh takes them from the cell.        *)
CreateLayerMesh(height_map, height_step_mm, pixel_size, prev) ==
    LET y_pixels == Rows(height_map)
        x_pixels == Cols(height_map)
        n == y_pixels * x_pixels
        Y(k) == ((k - 1) \div x_pixels) + 1
        X(k) == ((k - 1) % x_pixels) + 1
        InFloor(k) == \/ prev = None
                      \/ Y(k) <= Len(prev) /\ X(k) <= Len(prev[Y(k)])
        bad == {k \in 1..n : ~InFloor(k)}
        firstBad == IF bad = {} THEN n + 1
                    ELSE CHOOSE k \in bad : \A j \in bad : k <= j
        Start(k) == IF prev # None THEN prev[Y(k)][X(k)] ELSE 0
        Z(k) == Quantize(height_map[Y(k)][X(k)], height_step_mm) + Start(k)
        stl_mesh == [i \in 1..(TrianglesPerCell * n) |->
            LET k == ((i - 1) \div TrianglesPerCell) + 1
                corners == CellVertices(X(k) - 1, Y(k) - 1, pixel_size,
                                        Start(k), Z(k))
                face == FaceTemplate[((i - 1) % TrianglesPerCell) + 1]
                v0 == corners[face[1] + 1]
                v1 == corners[face[2] + 1]
                v2 == corners[face[3] + 1]
            IN  [vectors |-> <<v0, v1, v2>>, normal |-> FaceNormal(v0, v1, v2)]]
    IN  IF firstBad <= n
        THEN [status |-> "IndexError", mesh |-> None, next_heights |-> None,
              cells_built |-> firstBad - 1]
        ELSE [status |-> "ok", mesh |-> stl_mesh,
              next_heights |-> [y \in 1..y_pixels |-> [x \in 1..x_pixels |->
                                    Z((y - 1) * x_pixels + x)]],
              cells_built |-> n]

(* create_base_plate: only the mesh is returned, the ceiling is dropped. *)
CreateBasePlate(x_pixels, y_pixels, cfg) ==
    CreateLayerMesh(Full(y_pixels, x_pixels, Uint8Cast(cfg.base_height)),
                    cfg.height_step_mm, cfg.pixel_size,
                    Full(y_pixels, x_pixels, 0)).mesh

(* create_color_layer: layer_type and the layer's minimum are not passed on. *)
CreateColorLayer(height_map, prev, cfg, layer_type) ==
    CreateLayerMesh(height_map, cfg.height_step_mm, cfg.pixel_size, prev)

(* ------------------------------------------------------------ to_stl_cym *)
ToStlCymParams == {"img", "config"}

(* The keyword arguments of main.py's call, lines 69-76. *)
MainKwargs == {"pixel_size", "base_height", "max_height", "intensity_height",
               "height_step_mm"}

(* The layers table, lines 211-216: (height map, declared floor, layer type). *)
Layers ==
    <<[name |-> "cyan_mesh", height_map |-> channels.c_channel,
       floor |-> base_heights, layer_type |-> CYAN],
      [name |-> "yellow_mesh", height_map |-> channels.y_channel,
       floor |-> None, layer_type |-> YELLOW],
      [name |-> "magenta_mesh", height_map |-> channels.m_channel,
       floor |-> None, layer_type |-> MAGENTA],
      [name |-> "white_intensity_mesh", height_map |-> channels.intensity_map,
       floor |-> None, layer_type |-> KEY]>>

(* LayerFloor as the layers table declares it. *)
LayerFloorDeclared(declared, previous) == declared

(* The floor a layer is built on: the loop unpacks the declared floor into _ *)
(* and passes previous_heights, lines 221-225.                               *)
LayerFloor(declared, previous) == previous

(* meshes[name] = mesh on a dict that keeps insertion order. *)
DictPut(d, name, mesh) ==
    IF \E i \in 1..Len(d) : d[i].name = name
    THEN [i \in 1..Len(d) |->
            IF d[i].name = name THEN [name |-> name, mesh |-> mesh] ELSE d[i]]
    ELSE Append(d, [name |-> name, mesh |-> mesh])

(* os.path.join(output_dir, f"{k}.stl"), within output_dir. *)
StlPath(k) == <<k, ".stl">>

(* ---------------------------------------------------------------- inputs *)
PixelValues == {<<255, 255, 255>>, <<0, 128, 250>>}
BaseHeightValues == {Mm \div 5, Mm}
StepValues == {0, Mm \div 10}
PixelSizeValues == {Pitch, (2 * Pitch) \div 5}
MaxHeightValues == {(8 * Mm) \div 5}
MinHeightValues == {0, Mm \div 25}
ThicknessValues == {0, (37 * Mm) \div 100}
FloorValues == {0, Mm \div 5}

(* Every (rows, cols) with at most MaxCells cells. *)
Shapes == {sh \in (1..MaxCells) \X (1..MaxCells) : sh[1] * sh[2] <= MaxCells}

Images ==
    UNION {{[shape |-> <<sh[1], sh[2], NumChannels>>, px |-> g] :
                g \in [1..sh[1] -> [1..sh[2] -> PixelValues]]} : sh \in Shapes}

(* A grayscale grid (two dimensions) and a four-channel grid. *)
BadImages ==
    {[shape |-> <<1, 1>>, px |-> << <<255>> >>],
     [shape |-> <<1, 1, 4>>, px |-> << << <<255, 255, 255, 255>> >> >>]}

Configs ==
    [base_height : BaseHeightValues,
     pixel_size : {Pitch},
     height_step_mm : StepValues,
     layer_heights : {[l \in LayerType |-> h] : h \in MaxHeightValues},
     layer_mins : {[l \in LayerType |-> m] : m \in MinHeightValues}]

Calls ==
    [height_map : {Full(sh[1], sh[2], t) : sh \in Shapes, t \in ThicknessValues},
     height_step_mm : StepValues,
     pixel_size : PixelSizeValues,
     previous_heights :
        {None} \cup {Full(sh[1], sh[2], f) : sh \in Shapes, f \in FloorValues}]

(* ------------------------------------------------------------------ Init *)
Init ==
    /\ entry \in {"main", "api", "mesh"}
    /\ pc = CASE entry = "main" -> "main_pixelate"
              [] entry = "api" -> "call"
              [] entry = "mesh" -> "mesh_call"
    /\ img \in CASE entry = "main" -> Images
                [] entry = "api" -> Images \cup BadImages
                [] entry = "mesh" -> {None}
    /\ ofile \in IF entry = "main" THEN {"", "pixelated.png"} ELSE {""}
    /\ config \in IF entry = "api" THEN {None} \cup Configs ELSE {None}
    /\ kwargs = CASE entry = "main" -> MainKwargs
                  [] entry = "api" /\ config # None -> {"config"}
                  [] OTHER -> {}
    /\ call \in IF entry = "mesh" THEN Calls ELSE {None}
    /\ channels = None
    /\ base_heights = None
    /\ previous_heights = None
    /\ layerIdx = 1
    /\ meshes = <<>>
    /\ collection = None
    /\ saveIdx = 1
    /\ files = <<>>
    /\ error = "none"
    /\ result = None

(* --------------------------------------------------------------- main.py *)
(* Lines 34-56: the output directory, the image, img.pixelate(block_size).  *)
MainPixelate ==
    /\ entry = "main" /\ pc = "main_pixelate"
    /\ pc' = "main_save_image"
    /\ UNCHANGED <<entry, img, ofile, kwargs, config, channels, base_heights,
                   previous_heights, layerIdx, meshes, collection, saveIdx,
                   files, error, call, result>>

(* Lines 58-67: the pixelated image is saved when --output-image is given.  *)
MainSaveProcessedImage ==
    /\ entry = "main" /\ pc = "main_save_image"
    /\ files' = IF ofile # "" THEN Append(files, <<ofile>>) ELSE files
    /\ pc' = "call"
    /\ UNCHANGED <<entry, img, ofile, kwargs, config, channels, base_heights,
                   previous_heights, layerIdx, meshes, collection, saveIdx,
                   error, call, result>>

(* ------------------------------------------------------------ to_stl_cym *)
(* The call binds its keyword arguments to the parameters (img, config); a   *)
(* keyword that names no parameter raises TypeError.  Lines 197-199.         *)
CallToStlCym ==
    /\ pc = "call"
    /\ IF kwargs \subseteq ToStlCymParams
       THEN /\ config' = IF config = None THEN DefaultConfig ELSE config
            /\ pc' = "check"
            /\ error' = error
       ELSE /\ error' = "TypeError"
            /\ pc' = "failed"
            /\ config' = config
    /\ UNCHANGED <<entry, img, ofile, kwargs, channels, base_heights,
                   previous_heights, layerIdx, meshes, collection, saveIdx,
                   files, call, result>>

(* Lines 201-202. *)
CheckChannels ==
    /\ pc = "check"
    /\ IF Len(img.shape) # 3 \/ img.shape[3] # NumChannels
       THEN error' = "ValueError" /\ pc' = "failed"
       ELSE error' = error /\ pc' = "extract"
    /\ UNCHANGED <<entry, img, ofile, kwargs, config, channels, base_heights,
                   previous_heights, layerIdx, meshes, collection, saveIdx,
                   files, call, result>>

(* Lines 204-205. *)
ExtractChannels ==
    /\ pc = "extract"
    /\ channels' = ExtractAndInvertChannels(img, config)
    /\ pc' = "base"
    /\ UNCHANGED <<entry, img, ofile, kwargs, config, base_heights,
                   previous_heights, layerIdx, meshes, collection, saveIdx,
                   files, error, call, result>>

(* Lines 207-219: the base plate, base_heights, previous_heights, meshes. *)
BuildBasePlate ==
    /\ pc = "base"
    /\ meshes' = <<[name |-> "white_base_mesh",
                    mesh |-> CreateBasePlate(img.shape[2], img.shape[1], config)]>>
    /\ base_heights' = Full(Rows(channels.c_channel), Cols(channels.c_channel),
                            config.base_height)
    /\ previous_heights' = base_heights'
    /\ layerIdx' = 1
    /\ pc' = "layers"
    /\ UNCHANGED <<entry, img, ofile, kwargs, config, channels, collection,
                   saveIdx, files, error, call, result>>

(* One iteration of the loop of lines 221-229. *)
BuildLayer ==
    /\ pc = "layers" /\ layerIdx <= Len(Layers)
    /\ LET layer == Layers[layerIdx]
           r == CreateColorLayer(layer.height_map,
                                 LayerFloor(layer.floor, previous_heights),
                                 config, layer.layer_type)
       IN  IF r.status = "ok"
           THEN /\ meshes' = DictPut(meshes, layer.name, r.mesh)
                /\ previous_heights' = r.next_heights
                /\ layerIdx' = layerIdx + 1
                /\ UNCHANGED <<pc, error>>
           ELSE /\ error' = r.status
                /\ pc' = "failed"
                /\ UNCHANGED <<meshes, previous_heights, layerIdx>>
    /\ UNCHANGED <<entry, img, ofile, kwargs, config, channels, base_heights,
                   collection, saveIdx, files, call, result>>

(* Line 231; the caller then calls save_to_folder (main.py line 78). *)
ReturnCollection ==
    /\ pc = "layers" /\ layerIdx > Len(Layers)
    /\ collection' = meshes
    /\ saveIdx' = 1
    /\ pc' = "save"
    /\ UNCHANGED <<entry, img, ofile, kwargs, config, channels, base_heights,
                   previous_heights, layerIdx, meshes, files, error, call, result>>

(* StlCollection.save_to_folder, lines 193-195: one v.save per entry. *)
SaveMesh ==
    /\ pc = "save" /\ saveIdx <= Len(collection)
    /\ files' = Append(files, StlPath(collection[saveIdx].name))
    /\ saveIdx' = saveIdx + 1
    /\ UNCHANGED <<entry, pc, img, ofile, kwargs, config, channels, base_heights,
                   previous_heights, layerIdx, meshes, collection, error, call,
                   result>>

SaveDone ==
    /\ pc = "save" /\ saveIdx > Len(collection)
    /\ pc' = "done"
    /\ UNCHANGED <<entry, img, ofile, kwargs, config, channels, base_heights,
                   previous_heights, layerIdx, meshes, collection, saveIdx,
                   files, error, call, result>>

(* A direct call of create_layer_mesh. *)
CallCreateLayerMesh ==
    /\ entry = "mesh" /\ pc = "mesh_call"
    /\ result' = CreateLayerMesh(call.height_map, call.height_step_mm,
                                 call.pixel_size, call.previous_heights)
    /\ error' = IF result'.status = "ok" THEN error ELSE result'.status
    /\ pc' = IF result'.status = "ok" THEN "done" ELSE "failed"
    /\ UNCHANGED <<entry, img, ofile, kwargs, config, channels, base_heights,
                   previous_heights, layerIdx, meshes, collection, saveIdx,
                   files, call>>

Next ==
    \/ MainPixelate
    \/ MainSaveProcessedImage
    \/ CallToStlCym
    \/ CheckChannels
    \/ ExtractChannels
    \/ BuildBasePlate
    \/ BuildLayer
    \/ ReturnCollection
    \/ SaveMesh
    \/ SaveDone
    \/ CallCreateLayerMesh

Spec == Init /\ [][Next]_vars

(* ======================================================== the claims ===== *)
(* The cells of the pixel grid, numbered row by row as create_layer_mesh does. *)
NCells == img.shape[1] * img.shape[2]
CellRow(k) == ((k - 1) \div img.shape[2]) + 1
CellCol(k) == ((k - 1) % img.shape[2]) + 1

(* The z of cell k's box in an emitted mesh: that of its first bottom triangle *)
(* and of its first top triangle.                                             *)
BoxFloor(mesh, k) == mesh[(k - 1) * TrianglesPerCell + 1].vectors[1][3]
BoxCeiling(mesh, k) == mesh[(k - 1) * TrianglesPerCell + 3].vectors[1][3]

(* The layers table's entry of meshes[i], i >= 2. *)
LayerOf(i) == Layers[i - 1]

(* The floor a declared floor stands for at cell k: None is all-zero. *)
DeclaredFloorAt(declared, k) ==
    IF declared = None THEN 0 ELSE declared[CellRow(k)][CellCol(k)]

(* The mesh the last step built, with the grid it was built for: a layer of *)
(* to_stl_cym (every layer is the last one built in some state) or a direct *)
(* call's.                                                                  *)
JustBuilt ==
    IF pc = "layers" /\ Len(meshes) >= 1
    THEN {[mesh |-> meshes[Len(meshes)].mesh, cols |-> img.shape[2],
           cells |-> NCells, pixel_size |-> config.pixel_size]}
    ELSE IF result # None /\ result.status = "ok"
    THEN {[mesh |-> result.mesh, cols |-> Cols(call.height_map),
           cells |-> Rows(call.height_map) * Cols(call.height_map),
           pixel_size |-> call.pixel_size]}
    ELSE {}

(* C1: the base plate is a uniform slab: with height_step_mm = 0, every cell's *)
(* box in white_base_mesh has floor z = 0 and ceiling z = base_height.         *)
C1_BasePlateUniformSlab ==
    (Len(meshes) >= 1 /\ config.height_step_mm = 0) =>
        \A k \in 1..NCells :
            /\ BoxFloor(meshes[1].mesh, k) = 0
            /\ BoxCeiling(meshes[1].mesh, k) = config.base_height

(* C2: for every pair of consecutively stacked layers and every cell, the later *)
(* layer's box starts at the ceiling of the earlier layer's box.                *)
C2_FloorsMeetCeilings ==
    \A i \in 2..Len(meshes) : \A k \in 1..NCells :
        BoxFloor(meshes[i].mesh, k) = BoxCeiling(meshes[i - 1].mesh, k)

(* C3, as stated: every channel layer is built on the floor the layers table   *)
(* declares for it (cyan: base_heights; yellow, magenta, key: all-zero).       *)
C3_DeclaredFloorsApplied ==
    \A i \in 2..Len(meshes) : \A k \in 1..NCells :
        BoxFloor(meshes[i].mesh, k) = DeclaredFloorAt(LayerOf(i).floor, k)

(* C3, amended: cyan is built on the base_height surface and every later       *)
(* channel layer on the ceiling returned by the build before it; the floors    *)
(* the layers table declares are not used.                                     *)
C3_LayersChained ==
    \A i \in 2..Len(meshes) : \A k \in 1..NCells :
        BoxFloor(meshes[i].mesh, k) =
            IF i = 2 THEN config.base_height
            ELSE BoxCeiling(meshes[i - 1].mesh, k)

(* C3 witness: yellow, whose declared floor is None, has been built and one of *)
(* its boxes starts above zero, on a cyan ceiling above the base height.       *)
C3_YellowBuiltOnCyan ==
    /\ Len(meshes) >= 3
    /\ LayerOf(3).name = "yellow_mesh" /\ LayerOf(3).floor = None
    /\ \E k \in 1..NCells :
        /\ BoxCeiling(meshes[2].mesh, k) > config.base_height
        /\ BoxFloor(meshes[3].mesh, k) > 0

(* The minimum height floor configured for meshes[i]; the base plate has none. *)
MinHeightFloor(i) == IF i = 1 THEN 0 ELSE config.layer_mins[LayerOf(i).layer_type]

(* C4: every ceiling returned during to_stl_cym has the height map's shape and *)
(* is at or above the floor in every cell, and equals the floor only where the *)
(* layer's thickness floor is zero (the thickness is then zero too).           *)
C4_MonotonicStacking ==
    /\ (Len(meshes) >= 2 =>
            Shape(previous_heights) = <<img.shape[1], img.shape[2]>>)
    /\ \A i \in 1..Len(meshes) : \A k \in 1..NCells :
        /\ BoxCeiling(meshes[i].mesh, k) >= BoxFloor(meshes[i].mesh, k)
        /\ BoxCeiling(meshes[i].mesh, k) = BoxFloor(meshes[i].mesh, k)
               => MinHeightFloor(i) = 0

(* C5: in every cell of every channel layer the thickness added on top of the  *)
(* floor is at least the layer's configured minimum height.                    *)
C5_ThicknessAtLeastMinimum ==
    \A i \in 2..Len(meshes) : \A k \in 1..NCells :
        BoxCeiling(meshes[i].mesh, k) - BoxFloor(meshes[i].mesh, k)
            >= MinHeightFloor(i)

(* C6: the key thickness of each cell is normalize_thickness of the exact mean *)
(* (c0 + c1 + c2) / 3 of the cell's three channel values.                      *)
C6_KeyIsExactMean ==
    channels # None =>
        \A y \in 1..img.shape[1] : \A x \in 1..img.shape[2] :
            channels.intensity_map[y][x] =
                NormalizeThickness(img.px[y][x][1] + img.px[y][x][2] + img.px[y][x][3],
                                   NumChannels,
                                   config.layer_heights[KEY], config.layer_mins[KEY])

(* C7: a create_layer_mesh call whose floor's shape differs from the height    *)
(* map's fails before any cell's vertices or faces are generated and returns   *)
(* neither a mesh nor a ceiling.                                               *)
C7_ShapeMismatchRejected ==
    (/\ result # None
     /\ call.previous_heights # None
     /\ Shape(call.previous_heights) # Shape(call.height_map)) =>
        /\ result.status # "ok"
        /\ result.cells_built = 0
        /\ result.mesh = None /\ result.next_heights = None

(* C8: in a run of main.py a file has been written only if to_stl_cym has      *)
(* returned a collection with all five layers built.                           *)
C8_NoFileBeforeAllLayers ==
    (entry = "main" /\ files # <<>>) =>
        collection # None /\ Len(collection) = Len(Layers) + 1

IsStlFile(f) == Len(f) = 2 /\ f[2] = ".stl"

(* C10: a run of main.py ends with to_stl_cym completed and exactly the five   *)
(* layer files written, in generation order.                                   *)
C10_MainWritesFiveFiles ==
    (entry = "main" /\ pc \in {"done", "failed"}) =>
        /\ error = "none"
        /\ collection # None
        /\ SelectSeq(files, IsStlFile) =
              <<StlPath("white_base_mesh"), StlPath("cyan_mesh"),
                StlPath("yellow_mesh"), StlPath("magenta_mesh"),
                StlPath("white_intensity_mesh")>>

(* The outward unit normals of a cell's twelve triangles: bottom, top, front,  *)
(* back, left, right, two triangles each.                                      *)
OutwardNormals ==
    << <<0, 0, -1>>, <<0, 0, -1>>, <<0, 0, 1>>, <<0, 0, 1>>,
       <<0, -1, 0>>, <<0, -1, 0>>, <<0, 1, 0>>, <<0, 1, 0>>,
       <<-1, 0, 0>>, <<-1, 0, 0>>, <<1, 0, 0>>, <<1, 0, 0>> >>

(* The plane of the face of cell k that the outward normal n names: the axis *)
(* and the coordinate all of the face's points share.                         *)
FacePlane(m, k, n) ==
    LET col == ((k - 1) % m.cols) + 1
        row == ((k - 1) \div m.cols) + 1
    IN  CASE n[1] # 0 ->
               [axis |-> 1, at |-> (IF n[1] < 0 THEN col - 1 ELSE col) * m.pixel_size]
          [] n[2] # 0 ->
               [axis |-> 2, at |-> (IF n[2] < 0 THEN row - 1 ELSE row) * m.pixel_size]
          [] OTHER ->
               [axis |-> 3, at |-> IF n[3] < 0 THEN BoxFloor(m.mesh, k)
                                   ELSE BoxCeiling(m.mesh, k)]

(* Triangle i of the mesh lies in the face of cell k that normal n names. *)
OnItsFace(m, k, i, n) ==
    \A j \in 1..3 :
        m.mesh[i].vectors[j][FacePlane(m, k, n).axis] = FacePlane(m, k, n).at

TriangleCross(t) ==
    Cross(Sub(t.vectors[2], t.vectors[1]), Sub(t.vectors[3], t.vectors[1]))

(* C9: every mesh holds twelve triangles per cell; in a cell whose ceiling is  *)
(* above its floor each triangle lies in its face of the box and its normal    *)
(* points out of the box (-z, -z, +z, +z, -y, -y, +y, +y, -x, -x, +x, +x); and *)
(* a triangle's normal differs from its normalized cross product only when the *)
(* cross product is zero, and is then (0, 0, 1).                               *)
C9_BoxesFaceOutward ==
    \A m \in JustBuilt :
        /\ Len(m.mesh) = 12 * m.cells
        /\ \A k \in 1..m.cells :
            BoxCeiling(m.mesh, k) > BoxFloor(m.mesh, k) =>
                \A f \in 1..12 :
                    LET i == (k - 1) * 12 + f
                    IN  /\ m.mesh[i].normal = OutwardNormals[f]
                        /\ TriangleCross(m.mesh[i]) # <<0, 0, 0>>
                        /\ OnItsFace(m, k, i, OutwardNormals[f])
        /\ \A i \in 1..Len(m.mesh) :
            m.mesh[i].normal # Normalize(TriangleCross(m.mesh[i])) =>
                /\ TriangleCross(m.mesh[i]) = <<0, 0, 0>>
                /\ m.mesh[i].normal = <<0, 0, 1>>

(* C9 witness: a finished five-layer run with a box of positive height and a   *)
(* degenerate box, on a grid of more than one row and more than one column.    *)
C9_TallAndFlatBoxes ==
    /\ pc = "layers" /\ Len(meshes) = Len(Layers) + 1
    /\ img.shape[1] > 1 /\ img.shape[2] > 1
    /\ \E i \in 1..Len(meshes) : \E k \in 1..NCells :
        BoxCeiling(meshes[i].mesh, k) > BoxFloor(meshes[i].mesh, k)
    /\ \E i \in 1..Len(meshes) : \E k \in 1..NCells :
        BoxCeiling(meshes[i].mesh, k) = BoxFloor(meshes[i].mesh, k)

====
